---- MODULE Spec2Model ----
(***************************************************************************)
(* Habitability priority pipeline of analysis/habitable_priority.py and    *)
(* its two other entry points (validate_analysis.py, build_dashboard.py).  *)
(*                                                                         *)
(* Numbers.  Floating-point columns are modelled in fixed point:           *)
(*   scores, pl_insol, pl_rade, pl_bmasse, st_rad, sy_vmag : thousandths   *)
(*   pl_eqt, st_teff (K), pl_orbper (days), sy_dist (pc), sy_snum : units  *)
(* np.log10, np.exp and np.power are computed by binary fixed-point        *)
(* algorithms (Log2Fix, Pow2Fix) with 12 fractional bits.  A missing value *)
(* (pandas NaN) is the number NaN, log10(0) is NegInf, a missing string or *)
(* category is NA.                                                         *)
(***************************************************************************)
EXTENDS Integers, Sequences, FiniteSets, TLC

\* ------------------------------------------------------------------------
\* Special values
\* ------------------------------------------------------------------------

NaN == -999999

NegInf == -888888

NA == "NaN"

\* ------------------------------------------------------------------------
\* Fixed-point arithmetic
\* ------------------------------------------------------------------------

\* One, as a score (thousandths).
SCALE == 1000

\* One, in the 12-bit fraction of a binary logarithm.
LOGONE == 4096

\* One, as a mantissa in [MANT, 2*MANT).
MANT == 16384

Min2(a, b) == IF a <= b THEN a ELSE b

Max2(a, b) == IF a >= b THEN a ELSE b

RECURSIVE TwoTo(_)
TwoTo(n) == IF n <= 0 THEN 1 ELSE 2 * TwoTo(n - 1)

RECURSIVE FloorLog2(_)
FloorLog2(x) == IF x < 2 THEN 0 ELSE 1 + FloorLog2(x \div 2)

\* Fraction bits of log2 of a mantissa m in [MANT, 2*MANT), by repeated squaring.
RECURSIVE Log2Frac(_, _)
Log2Frac(m, bit) ==
    IF bit = 0 THEN 0
    ELSE LET sq == (m * m) \div MANT
         IN  IF sq >= 2 * MANT
             THEN bit + Log2Frac(sq \div 2, bit \div 2)
             ELSE Log2Frac(sq, bit \div 2)

\* log2(x) * LOGONE for an integer 1 <= x < 2^17.
Log2Fix(x) ==
    LET e == FloorLog2(x)
        m == (x * MANT) \div TwoTo(e)
    IN  e * LOGONE + Log2Frac(m, LOGONE \div 2)

\* 2^(1/2), 2^(1/4), ... 2^(1/4096), each times MANT.
Pow2Roots == <<23170, 19484, 17867, 17109, 16743, 16562, 16473, 16428,
               16406, 16395, 16390, 16387>>

\* 2^(f/LOGONE) * MANT for 0 <= f < LOGONE: the product of the roots of f's bits.
RECURSIVE Pow2Frac(_, _, _)
Pow2Frac(f, i, bit) ==
    IF bit = 0 THEN MANT
    ELSE IF f >= bit
         THEN (Pow2Roots[i] * Pow2Frac(f - bit, i + 1, bit \div 2)) \div MANT
         ELSE Pow2Frac(f, i + 1, bit \div 2)

\* 2^(y/LOGONE) * MANT, saturating outside 2^-15 .. 2^15.
Pow2Fix(y) ==
    LET n == y \div LOGONE
        f == y % LOGONE
    IN  IF n >= 15 THEN MANT * TwoTo(15)
        ELSE IF n <= -15 THEN 0
        ELSE IF n >= 0 THEN Pow2Frac(f, 1, LOGONE \div 2) * TwoTo(n)
        ELSE Pow2Frac(f, 1, LOGONE \div 2) \div TwoTo(-n)

\* np.log10 of a whole number, in thousandths: NaN below zero, -inf at zero.
Log10Milli(x) ==
    IF x = NaN THEN NaN
    ELSE IF x < 0 THEN NaN
    ELSE IF x = 0 THEN NegInf
    ELSE (Log2Fix(x) * 30103) \div (LOGONE * 100)

\* base^(p10/10) in thousandths, base given in thousandths (np.power).
PowMilli(base, p10) ==
    LET lg == Log2Fix(base) - Log2Fix(SCALE)
    IN  (Pow2Fix((lg * p10) \div 10) * SCALE) \div MANT

\* 1 / (1 + exp(num / den)) in thousandths.
Logistic(num, den) ==
    IF num = NaN THEN NaN
    ELSE IF num = NegInf THEN SCALE
    ELSE LET y == (num * 5909) \div den
             e == Pow2Fix(y)
         IN  (SCALE * MANT) \div (MANT + e)

Clip(x, lo, hi) == IF x = NaN THEN NaN ELSE Max2(lo, Min2(x, hi))

\* NaN-propagating difference; -inf minus a number is -inf.
Sub(a, b) ==
    IF a = NaN \/ b = NaN THEN NaN
    ELSE IF a = NegInf THEN NegInf
    ELSE a - b

\* ------------------------------------------------------------------------
\* Project constants
\* ------------------------------------------------------------------------

\* Earth radii per solar radius, in thousandths.
SOLAR_RADIUS_TO_EARTH == 109076

EARTH_EQ_TEMP == 255

REQUIRED_COLUMNS ==
    {"pl_name", "hostname", "pl_eqt", "pl_rade", "pl_orbper", "st_teff",
     "st_rad", "sy_vmag", "sy_dist", "sy_snum"}

CLIMATE_COMPONENTS ==
    <<"temp_score", "insolation_score", "period_score", "stellar_temp_score">>

STRUCTURE_COMPONENTS == <<"radius_score", "mass_score">>

\* Initial value of the module-level dict, weights in hundredths.
OBSERVABILITY_COMPONENT_WEIGHTS_0 ==
    [brightness_score |-> 40, transit_visibility_score |-> 35, distance_score |-> 25]

\* Initial value of the module-level dict, weights in hundredths.
AGGREGATE_WEIGHTS_0 ==
    [climate_score |-> 45, structure_score |-> 25, observability_score |-> 22,
     system_score |-> 8]

\* ------------------------------------------------------------------------
\* Helper transforms
\* ------------------------------------------------------------------------

\* One np.clip((x - from) / (to - from), 0, 1) ramp.
Ramp(num, den) == Clip((num * SCALE) \div den, 0, SCALE)

\* The membership without its descending ramp.
TrapezoidRisingOnly(value, lower_start, lower_full, upper_full, upper_end) ==
    IF value = NaN THEN NaN
    ELSE Min2(Ramp(value - lower_start, lower_full - lower_start), SCALE)

trapezoidal_membership(value, lower_start, lower_full, upper_full, upper_end) ==
    IF value = NaN THEN NaN
    ELSE LET ascend  == Ramp(value - lower_start, lower_full - lower_start)
             descend == Ramp(upper_end - value, upper_end - upper_full)
         IN  Min2(Min2(ascend, descend), SCALE)

logistic_decreasing(value, midpoint, width) ==
    Logistic(Sub(value, midpoint), width)

logistic_increasing(value, midpoint, width) ==
    IF value = NaN THEN NaN
    ELSE IF value = NegInf THEN 0
    ELSE Logistic(-(value - midpoint), width)

\* Radii in thousandths; the depth in whole parts per million.
compute_transit_depth_ppm(radius_earth, star_radius_solar) ==
    LET planet_to_star ==
            (radius_earth * 100000) \div ((star_radius_solar * SOLAR_RADIUS_TO_EARTH) \div 1000)
    IN  (planet_to_star * planet_to_star) \div 10000

\* ------------------------------------------------------------------------
\* pandas primitives
\* ------------------------------------------------------------------------

\* Series.between(lo, hi, inclusive="neither").
BetweenExclusive(x, lo, hi) == x # NaN /\ x > lo /\ x < hi

\* Series.between(lo, hi): both ends inclusive, False on NaN.
Between(x, lo, hi) == x # NaN /\ x >= lo /\ x <= hi

Fillna(x, v) == IF x = NaN THEN v ELSE x

RECURSIVE SumSeq(_)
SumSeq(s) == IF s = <<>> THEN 0 ELSE Head(s) + SumSeq(Tail(s))

\* DataFrame.mean(axis=1): the mean of the values present (skipna), NaN if none is.
MeanSkipNa(vals) ==
    LET present == SelectSeq(vals, LAMBDA v : v # NaN)
    IN  IF present = <<>> THEN NaN ELSE SumSeq(present) \div Len(present)

\* a * w for a column value a: NaN propagates.
Mul(a, w) == IF a = NaN THEN NaN ELSE a * w

Add(a, b) == IF a = NaN \/ b = NaN THEN NaN ELSE a + b

Div(a, d) == IF a = NaN THEN NaN ELSE a \div d

\* pd.cut with right=False: bin i is [bins[i], bins[i+1]), the last one closed on the right.
PdCutLeftClosed(score, bins, labels) ==
    IF score = NaN \/ score = NegInf THEN NA
    ELSE LET hits == {i \in 1..Len(labels) :
                        /\ score >= bins[i]
                        /\ (score < bins[i + 1]
                            \/ (i = Len(labels) /\ score = bins[i + 1]))}
         IN  IF hits = {} THEN NA ELSE labels[CHOOSE i \in hits : TRUE]

\* pd.cut(score, bins, labels, include_lowest=True) with the default right=True:
\* bin i is (bins[i], bins[i+1]], the first one closed on the left too; a value
\* outside every bin, or NaN, has no label.
PdCut(score, bins, labels) ==
    IF score = NaN \/ score = NegInf THEN NA
    ELSE LET hits == {i \in 1..Len(labels) :
                        /\ score <= bins[i + 1]
                        /\ (score > bins[i] \/ (i = 1 /\ score = bins[1]))}
         IN  IF hits = {} THEN NA ELSE labels[CHOOSE i \in hits : TRUE]

\* ------------------------------------------------------------------------
\* Data preparation
\* ------------------------------------------------------------------------

\* read_csv numbers the rows it reads 0, 1, ...: the DataFrame index.
RECURSIVE WithIndex(_, _)
WithIndex(rows, first) ==
    IF rows = <<>> THEN <<>>
    ELSE <<[index |-> first] @@ Head(rows)>> \o WithIndex(Tail(rows), first + 1)

\* df[df["default_flag"] == 1] on the parsed file.
load_planet_catalog(file) ==
    [columns |-> file.columns,
     rows    |-> SelectSeq(WithIndex(file.rows, 0), LAMBDA r : r.default_flag = 1)]

\* Only the two optional columns are looked up; a missing required column passes.
SelectRaisesOptionalOnly(df) ==
    ~ ({"pl_insol", "pl_bmasse"} \subseteq df.columns)

\* dropna(subset=REQUIRED_COLUMNS), df["pl_insol"] and df["pl_bmasse"] raise KeyError
\* on a table without the column.
SelectRaises(df) ==
    ~ ((REQUIRED_COLUMNS \cup {"pl_insol", "pl_bmasse"}) \subseteq df.columns)

HasRequired(r) ==
    /\ r.pl_name # NA
    /\ r.hostname # NA
    /\ \A c \in REQUIRED_COLUMNS \ {"pl_name", "hostname"} : r[c] # NaN

\* np.power(pl_eqt / EARTH_EQ_TEMP, 4), in thousandths.
InsolationProxy(pl_eqt) ==
    LET ratio == (pl_eqt * SCALE) \div EARTH_EQ_TEMP
        sq    == (ratio * ratio) \div SCALE
    IN  (sq * sq) \div SCALE

\* np.where(radii <= 1.5, radii^3.7, 1.5 * radii^2.3), in thousandths.
ApproxMass(pl_rade) ==
    IF pl_rade <= 1500 THEN PowMilli(pl_rade, 37)
    ELSE (15 * PowMilli(pl_rade, 23)) \div 10

\* The proxy written over a measured insolation.
WithInsolProxyAlways(r) ==
    [pl_insol_effective |-> InsolationProxy(r.pl_eqt)] @@ r

WithInsolEffective(r) ==
    [pl_insol_effective |-> Fillna(r.pl_insol, InsolationProxy(r.pl_eqt))] @@ r

\* The proxy written over a measured mass.
WithMassProxyAlways(r) ==
    [pl_bmasse_filled |-> ApproxMass(r.pl_rade)] @@ r

WithMassFilled(r) ==
    [pl_bmasse_filled |-> Fillna(r.pl_bmasse, ApproxMass(r.pl_rade))] @@ r

RECURSIVE Reversed(_)
Reversed(rows) ==
    IF rows = <<>> THEN <<>> ELSE Reversed(Tail(rows)) \o <<Head(rows)>>

\* The selection handed back with its rows in the opposite order.
SelectReordered(df) ==
    LET f0 == SelectSeq(df.rows, HasRequired)
        f1 == [i \in 1..Len(f0) |-> WithInsolEffective(f0[i])]
        f2 == SelectSeq(f1, LAMBDA r : Between(r.pl_eqt, 150, 450))
        f3 == SelectSeq(f2, LAMBDA r : Between(r.pl_insol_effective, 100, 3000))
        f4 == SelectSeq(f3, LAMBDA r : Between(r.pl_rade, 400, 3500))
        f5 == [i \in 1..Len(f4) |-> WithMassFilled(f4[i])]
        f6 == SelectSeq(f5, LAMBDA r : Between(r.pl_bmasse_filled, 200, 15000))
        f7 == SelectSeq(f6, LAMBDA r : Between(r.pl_orbper, 3, 800))
        f8 == SelectSeq(f7, LAMBDA r : Between(r.st_teff, 3000, 7200))
        f9 == SelectSeq(f8, LAMBDA r : Between(r.st_rad, 200, 2500))
        f10 == SelectSeq(f9, LAMBDA r : Between(r.sy_vmag, 0, 18000))
    IN  Reversed(SelectSeq(f10, LAMBDA r : r.sy_dist # NaN /\ r.sy_dist <= 1000))

\* The rows of the table select_habitable_inputs returns (it raises when SelectRaises).
select_habitable_inputs(df) ==
    LET f0 == SelectSeq(df.rows, HasRequired)
        f1 == [i \in 1..Len(f0) |-> WithInsolEffective(f0[i])]
        f2 == SelectSeq(f1, LAMBDA r : Between(r.pl_eqt, 150, 450))
        f3 == SelectSeq(f2, LAMBDA r : Between(r.pl_insol_effective, 100, 3000))
        f4 == SelectSeq(f3, LAMBDA r : Between(r.pl_rade, 400, 3500))
        f5 == [i \in 1..Len(f4) |-> WithMassFilled(f4[i])]
        f6 == SelectSeq(f5, LAMBDA r : Between(r.pl_bmasse_filled, 200, 15000))
        f7 == SelectSeq(f6, LAMBDA r : Between(r.pl_orbper, 3, 800))
        f8 == SelectSeq(f7, LAMBDA r : Between(r.st_teff, 3000, 7200))
        f9 == SelectSeq(f8, LAMBDA r : Between(r.st_rad, 200, 2500))
        f10 == SelectSeq(f9, LAMBDA r : Between(r.sy_vmag, 0, 18000))
    IN  SelectSeq(f10, LAMBDA r : r.sy_dist # NaN /\ r.sy_dist <= 1000)

\* ------------------------------------------------------------------------
\* Scoring model
\* ------------------------------------------------------------------------

\* The penalty without its floor.
SystemScoreWithoutFloor(sy_snum) ==
    IF sy_snum <= 1 THEN SCALE ELSE Min2(SCALE - 250 * (sy_snum - 1), 850)

\* 1.0 for a single star, else np.clip(1.0 - 0.25 * (sy_snum - 1), 0.45, 0.85).
SystemScore(sy_snum) ==
    IF sy_snum <= 1 THEN SCALE ELSE Clip(SCALE - 250 * (sy_snum - 1), 450, 850)

\* sum(data[key] * weight for key, weight in weights.items()) / sum(weights.values())
ObservabilityScore(brightness, transit, distance, weights) ==
    Div(Add(Add(Mul(brightness, weights.brightness_score),
                Mul(transit, weights.transit_visibility_score)),
            Mul(distance, weights.distance_score)),
        weights.brightness_score + weights.transit_visibility_score
            + weights.distance_score)

\* The climate and structure weights applied to each other's pillar.
PriorityScoreSwapped(climate, structure, observability, system, weights) ==
    Div(Add(Add(Add(Mul(climate, weights.structure_score),
                    Mul(structure, weights.climate_score)),
                Mul(observability, weights.observability_score)),
            Mul(system, weights.system_score)),
        weights.climate_score + weights.structure_score
            + weights.observability_score + weights.system_score)

\* The weighted combination of the four pillars over total_weight.
PriorityScore(climate, structure, observability, system, weights) ==
    Div(Add(Add(Add(Mul(climate, weights.climate_score),
                    Mul(structure, weights.structure_score)),
                Mul(observability, weights.observability_score)),
            Mul(system, weights.system_score)),
        weights.climate_score + weights.structure_score
            + weights.observability_score + weights.system_score)

bins == <<0, 580, 700, 1000>>

labels == <<"Context", "Follow-up", "High Priority">>

\* One row of compute_priority_scores: the sub-scores, the pillars, the score, the band.
ScoreRow(r, aggregate, observability) ==
    LET temp_score == trapezoidal_membership(r.pl_eqt, 180, 240, 320, 400)
        insolation_score ==
            trapezoidal_membership(r.pl_insol_effective, 200, 320, 1700, 2200)
        period_score ==
            trapezoidal_membership(Log10Milli(r.pl_orbper), Log10Milli(15),
                                   Log10Milli(30), Log10Milli(400), Log10Milli(800))
        stellar_temp_score == trapezoidal_membership(r.st_teff, 3300, 4100, 6400, 7200)
        climate ==
            [temp_score |-> temp_score, insolation_score |-> insolation_score,
             period_score |-> period_score, stellar_temp_score |-> stellar_temp_score]
        climate_score ==
            MeanSkipNa([k \in 1..Len(CLIMATE_COMPONENTS) |-> climate[CLIMATE_COMPONENTS[k]]])
        radius_score == trapezoidal_membership(r.pl_rade, 500, 850, 1600, 2500)
        mass_score == trapezoidal_membership(r.pl_bmasse_filled, 300, 700, 5000, 10000)
        structure == [radius_score |-> radius_score, mass_score |-> mass_score]
        structure_score ==
            MeanSkipNa([k \in 1..Len(STRUCTURE_COMPONENTS) |->
                           structure[STRUCTURE_COMPONENTS[k]]])
        depth_ppm == compute_transit_depth_ppm(r.pl_rade, r.st_rad)
        depth_log == Log10Milli(Max2(depth_ppm, 5))
        transit_visibility_score == logistic_increasing(depth_log, 2600, 350)
        brightness_score == logistic_decreasing(r.sy_vmag, 11500, 1200)
        distance_score ==
            logistic_decreasing(Log10Milli(r.sy_dist), Log10Milli(80), 400)
        observability_score ==
            ObservabilityScore(brightness_score, transit_visibility_score,
                               distance_score, observability)
        system_score == SystemScore(r.sy_snum)
        priority_score ==
            PriorityScore(climate_score, structure_score, observability_score,
                          system_score, aggregate)
    IN  [index |-> r.index, pl_name |-> r.pl_name, hostname |-> r.hostname,
         pl_eqt |-> r.pl_eqt, pl_rade |-> r.pl_rade, pl_orbper |-> r.pl_orbper,
         st_teff |-> r.st_teff, st_rad |-> r.st_rad, sy_vmag |-> r.sy_vmag,
         sy_dist |-> r.sy_dist, sy_snum |-> r.sy_snum,
         pl_insol |-> r.pl_insol, pl_insol_effective |-> r.pl_insol_effective,
         pl_bmasse |-> r.pl_bmasse, pl_bmasse_filled |-> r.pl_bmasse_filled,
         temp_score |-> temp_score, insolation_score |-> insolation_score,
         period_score |-> period_score, stellar_temp_score |-> stellar_temp_score,
         climate_score |-> climate_score,
         radius_score |-> radius_score, mass_score |-> mass_score,
         structure_score |-> structure_score,
         transit_depth_ppm |-> depth_ppm,
         transit_visibility_score |-> transit_visibility_score,
         brightness_score |-> brightness_score, distance_score |-> distance_score,
         observability_score |-> observability_score,
         system_score |-> system_score,
         priority_score |-> priority_score,
         priority_band |-> PdCut(priority_score, bins, labels)]

\* ascending=True.
SortsBeforeAscending(rows, i, j, impl) ==
    \/ rows[i].priority_score < rows[j].priority_score
    \/ /\ rows[i].priority_score = rows[j].priority_score
       /\ IF impl = "stable" THEN i < j ELSE i > j

\* Equal scores left reversed by every build.
SortsBeforeReversedTies(rows, i, j, impl) ==
    \/ rows[i].priority_score > rows[j].priority_score
    \/ /\ rows[i].priority_score = rows[j].priority_score
       /\ i > j

\* Whether the row at position i comes before the row at position j in
\* sort_values("priority_score", ascending=False).  The default kind, quicksort,
\* does not promise an order among equal scores: a stable build keeps them in
\* table order, the other build modelled here leaves them reversed.
SortsBefore(rows, i, j, impl) ==
    \/ rows[i].priority_score > rows[j].priority_score
    \/ /\ rows[i].priority_score = rows[j].priority_score
       /\ IF impl = "stable" THEN i < j ELSE i > j

RECURSIVE SortPositions(_, _, _)
SortPositions(rows, left, impl) ==
    IF left = {} THEN <<>>
    ELSE LET first == CHOOSE i \in left :
                          \A j \in left \ {i} : SortsBefore(rows, i, j, impl)
         IN  <<first>> \o SortPositions(rows, left \ {first}, impl)

\* sort_values(by, ascending=False): the rows with a score, sorted, then the
\* rows whose score is NaN in table order (na_position="last").
SortValues(rows, impl) ==
    LET scored  == {i \in 1..Len(rows) : rows[i].priority_score # NaN}
        order   == SortPositions(rows, scored, impl)
        missing == SelectSeq(rows, LAMBDA r : r.priority_score = NaN)
    IN  [k \in 1..Len(order) |-> rows[order[k]]] \o missing

\* The table compute_priority_scores returns for the selected rows df.
compute_priority_scores(df, aggregate, observability, impl) ==
    SortValues([i \in 1..Len(df) |-> ScoreRow(df[i], aggregate, observability)], impl)

\* ------------------------------------------------------------------------
\* Tables on disk and joins
\* ------------------------------------------------------------------------

\* to_csv(index=False): the rows without the DataFrame index.
DropIndex(r) == [c \in (DOMAIN r) \ {"index"} |-> r[c]]

ToCsv(rows) == [i \in 1..Len(rows) |-> DropIndex(rows[i])]

ReadCsv(rows) == WithIndex(rows, 0)

Names(rows) == {rows[i].pl_name : i \in 1..Len(rows)}

RECURSIVE Flatten(_)
Flatten(ss) == IF ss = <<>> THEN <<>> ELSE Head(ss) \o Flatten(Tail(ss))

\* left.merge(right, on="pl_name", how=...): one row per pair of rows with the same
\* name, in the order of left; with how="left" a left row without a partner is kept once.
\* A merged row is [l |-> the left row, q |-> <<the right row>>, or <<>> without partner].
Merge(left, right, how) ==
    Flatten([i \in 1..Len(left) |->
        LET partners == SelectSeq(right, LAMBDA q : q.pl_name = left[i].pl_name)
        IN  IF partners = <<>>
            THEN IF how = "left" THEN <<[l |-> left[i], q |-> <<>>]>> ELSE <<>>
            ELSE [k \in 1..Len(partners) |-> [l |-> left[i], q |-> <<partners[k]>>]]])

\* ------------------------------------------------------------------------
\* Authoritative sample comparison
\* ------------------------------------------------------------------------

\* A name of the reference list is a text: a sequence of words and of blanks " ".
\* The names of the catalog are single words.
RECURSIVE LStrip(_)
LStrip(text) ==
    IF text # <<>> /\ Head(text) = " " THEN LStrip(Tail(text)) ELSE text

RECURSIVE RStrip(_)
RStrip(text) ==
    IF text # <<>> /\ text[Len(text)] = " "
    THEN RStrip(SubSeq(text, 1, Len(text) - 1)) ELSE text

\* str.strip(): the text without its leading and trailing blanks.
Strip(text) == RStrip(LStrip(text))

\* The string a text of at most one word spells.
Word(text) == IF text = <<>> THEN "" ELSE text[1]

\* The reference lists PHL serves: one with a confidence column, padded names
\* and a planet listed twice, one with names only (one of them in another case).
ReferenceTable ==
    [columns |-> {"pl_name", "confidence"},
     rows |-> <<[pl_name |-> <<" ", "p1", " ">>, confidence |-> 1],
                [pl_name |-> <<"p9">>, confidence |-> 2],
                [pl_name |-> <<"p1">>, confidence |-> 3]>>]

ReferenceNamesOnly ==
    [columns |-> {"pl_name"},
     rows |-> <<[pl_name |-> <<"p1">>], [pl_name |-> <<"P2", " ">>]>>]

References == {ReferenceTable, ReferenceNamesOnly}

\* What urlopen / response.read / pd.read_csv do in download_authoritative_catalog.
FetchOutcomes == {"ok", "URLError", "timeout", "ParserError"}

None == [columns |-> {}, rows |-> <<>>, none |-> TRUE]

\* download_authoritative_catalog(): the table, None after URLError; any other
\* exception leaves the function.
download_authoritative_catalog(outcome, remote) ==
    CASE outcome = "ok" -> [raised |-> "none", value |-> remote]
      [] outcome = "URLError" -> [raised |-> "none", value |-> None]
      [] OTHER -> [raised |-> outcome, value |-> None]

\* authoritative["pl_name"].str.strip(), and a confidence column of NaN when absent.
Normalised(authoritative) ==
    [i \in 1..Len(authoritative.rows) |->
        [pl_name |-> Word(Strip(authoritative.rows[i].pl_name)),
         confidence |-> IF "confidence" \in authoritative.columns
                        THEN authoritative.rows[i].confidence ELSE NaN]]

\* priority_df.merge(authoritative[["pl_name", "confidence"]], how="left"), renamed.
compare_with_authoritative(priority_df, authoritative) ==
    LET m == Merge(priority_df, Normalised(authoritative), "left")
    IN  [i \in 1..Len(m) |->
            [phl_confidence |-> IF m[i].q = <<>> THEN NaN ELSE m[i].q[1].confidence]
                @@ m[i].l]

\* ------------------------------------------------------------------------
\* Validation
\* ------------------------------------------------------------------------

ValidationRecord(name, status) == [name |-> name, status |-> status]

AbsDiff(a, b) ==
    IF a = NaN \/ b = NaN THEN NaN ELSE IF a >= b THEN a - b ELSE b - a

\* Series.max(): the largest value present, NaN when none is.
MaxSkipNa(vals) ==
    LET present == {vals[i] : i \in 1..Len(vals)} \ {NaN}
    IN  IF present = {} THEN NaN ELSE CHOOSE m \in present : \A v \in present : v <= m

\* The coverage check looking only for names missing from the stored table.
PriorityRecordsMissingOnly(priority, stored) ==
    LET missing == Names(priority) \ Names(stored)
        joined  == Merge(priority, stored, "inner")
        score_delta ==
            MaxSkipNa([i \in 1..Len(joined) |->
                AbsDiff(joined[i].l.priority_score, joined[i].q[1].priority_score)])
        bands_match ==
            \A i \in 1..Len(joined) :
                /\ joined[i].l.priority_band # NA
                /\ joined[i].l.priority_band = joined[i].q[1].priority_band
        high == Cardinality({i \in 1..Len(priority) :
                                priority[i].priority_band = "High Priority"})
    IN  << ValidationRecord("Priority candidate coverage",
                            IF missing = {} THEN "pass" ELSE "fail"),
           ValidationRecord("Priority score equality",
                            IF score_delta # NaN /\ score_delta < 1 THEN "pass" ELSE "fail"),
           ValidationRecord("Priority band labels",
                            IF bands_match THEN "pass" ELSE "fail"),
           ValidationRecord("High-priority proportion",
                            IF high = 1 THEN "pass" ELSE "warn") >>

\* The four records validate_priority_table appends when the stored table exists
\* (the recomputed table priority is not empty).  A difference below 1e-6 is a
\* difference of zero thousandths.
PriorityRecords(priority, stored) ==
    LET missing == Names(priority) \ Names(stored)
        extra   == Names(stored) \ Names(priority)
        joined  == Merge(priority, stored, "inner")
        merged  == [i \in 1..Len(joined) |->
                        [model |-> joined[i].l, stored |-> joined[i].q[1]]]
        score_delta ==
            MaxSkipNa([i \in 1..Len(merged) |->
                AbsDiff(merged[i].model.priority_score, merged[i].stored.priority_score)])
        bands_match ==
            \A i \in 1..Len(merged) :
                /\ merged[i].model.priority_band # NA
                /\ merged[i].model.priority_band = merged[i].stored.priority_band
        high == Cardinality({i \in 1..Len(priority) :
                                priority[i].priority_band = "High Priority"})
    IN  << ValidationRecord("Priority candidate coverage",
                            IF missing = {} /\ extra = {} THEN "pass" ELSE "fail"),
           ValidationRecord("Priority score equality",
                            IF score_delta # NaN /\ score_delta < 1 THEN "pass" ELSE "fail"),
           ValidationRecord("Priority band labels",
                            IF bands_match THEN "pass" ELSE "fail"),
           ValidationRecord("High-priority proportion",
                            IF high = 1 THEN "pass" ELSE "warn") >>

\* The records validate_analysis.main holds before validate_priority_table runs,
\* for three outcomes of the four detection checks: all pass, the stored
\* timeseries is missing, the forecast is short.
DetectionRecords ==
    { << ValidationRecord("Method timeseries consistency", ts),
         ValidationRecord("Transit dominance cross-check", "pass"),
         ValidationRecord("Facility share normalisation", "pass"),
         ValidationRecord("Forecast horizon", fc) >> :
      ts \in {"pass"}, fc \in {"pass", "fail"} }
    \cup
    { << ValidationRecord("Method timeseries availability", "fail"),
         ValidationRecord("Transit dominance cross-check", "pass"),
         ValidationRecord("Facility share normalisation", "pass"),
         ValidationRecord("Forecast horizon", "pass") >> }

\* The overall status looking only for failed checks.
OverallIgnoringWarn(checks) ==
    IF \A i \in 1..Len(checks) : checks[i].status # "fail" THEN "PASS" ELSE "REVIEW"

\* The status in the header of validation_report.md.
Overall(checks) ==
    IF \A i \in 1..Len(checks) : checks[i].status = "pass" THEN "PASS" ELSE "REVIEW"

\* export_reports(records): the checks of validation_report.json and the
\* overall status of validation_report.md.
export_reports(checks) ==
    [written |-> TRUE, overall |-> Overall(checks), checks |-> checks]

\* The first check of validate_priority_data that fails, or "none".
validate_priority_data(priority) ==
    LET n == Len(priority)
    IN  IF \E i \in 1..n : priority[i].priority_score = NaN THEN "missing scores"
        ELSE IF \E i \in 1..n : priority[i].priority_score < 0
                                   \/ priority[i].priority_score > 1200
             THEN "scores outside the window"
        ELSE IF \E i \in 1..n : priority[i].priority_band = NA THEN "missing bands"
        ELSE IF \E i, j \in 1..n : i # j /\ priority[i].pl_name = priority[j].pl_name
             THEN "duplicates"
        ELSE "none"

\* ------------------------------------------------------------------------
\* Detection method tables (method_evolution.py)
\* ------------------------------------------------------------------------

\* A record of a detection table stands for `rows` rows of the file with the
\* same disc_year, discoverymethod and default_flag.  discoverymethod is a
\* text; an empty field is read as a missing value.
RowCount(df) == SumSeq([i \in 1..Len(df) |-> df[i].rows])

\* load_detection_data(): the default rows with a year and a method, from 1989
\* on, the method trimmed.
load_detection_data(file) ==
    LET kept == SelectSeq(file, LAMBDA r : /\ r.default_flag = 1
                                         /\ r.disc_year # NaN
                                         /\ r.discoverymethod # <<>>
                                         /\ r.disc_year >= 1989)
    IN  [i \in 1..Len(kept) |->
            [disc_year |-> kept[i].disc_year,
             discoverymethod |-> Word(Strip(kept[i].discoverymethod)),
             rows |-> kept[i].rows]]

\* The rows of df with this method.
MethodRows(df, method) == RowCount(SelectSeq(df, LAMBDA r : r.discoverymethod = method))

\* label_detection_methods(df, min_share=0.02): a method with less than 2% of
\* the rows is grouped as "Other".
label_detection_methods(df) ==
    [i \in 1..Len(df) |->
        [method_group |->
            IF MethodRows(df, df[i].discoverymethod) * 50 >= RowCount(df)
            THEN df[i].discoverymethod ELSE "Other"] @@ df[i]]

\* The method groups in the order groupby sorts them.
MethodOrder == <<"Imaging", "Microlensing", "Other", "Radial Velocity", "Transit">>

RECURSIVE Ascending(_)
Ascending(S) ==
    IF S = {} THEN <<>>
    ELSE LET least == CHOOSE x \in S : \A y \in S : x <= y
         IN  <<least>> \o Ascending(S \ {least})

\* The rows of df in a group of groupby(["disc_year", "method_group"]); a row
\* with a missing key is in no group.
GroupRows(df, year, group) ==
    RowCount(SelectSeq(df, LAMBDA r : r.disc_year = year /\ r.method_group = group))

\* The (year, group) pairs counted as one group per year, whatever the method.
aggregate_by_year_only(df) ==
    LET years == Ascending({df[i].disc_year : i \in 1..Len(df)} \ {NaN})
    IN  [k \in 1..Len(years) |->
            [disc_year |-> years[k], method_group |-> "Other",
             discoveries |->
                 RowCount(SelectSeq(df, LAMBDA r : r.disc_year = years[k]))]]

\* aggregate_method_timeseries(df): one row per (disc_year, method_group) with
\* rows in df, with their number, by year.
aggregate_method_timeseries(df) ==
    LET years == Ascending({df[i].disc_year : i \in 1..Len(df)} \ {NaN})
        cells == Flatten([k \in 1..Len(years) |->
                    [g \in 1..Len(MethodOrder) |->
                        [disc_year |-> years[k], method_group |-> MethodOrder[g],
                         discoveries |-> GroupRows(df, years[k], MethodOrder[g])]]])
    IN  SelectSeq(cells, LAMBDA c : c.discoveries > 0)

\* The discoveries of a group summed over the timeseries.
GroupTotal(ts, group) ==
    SumSeq([i \in 1..Len(ts) |-> IF ts[i].method_group = group THEN ts[i].discoveries ELSE 0])

\* np.isclose(share, 0.778, atol=0.02) for share = transit / recent (NaN for 0 / 0):
\* |share - 0.778| <= 0.02 + 1e-5 * 0.778.
CloseToDocumentedShare(transit, recent) ==
    /\ recent > 0
    /\ LET gap == transit * 1000000 - 778000 * recent
       IN  (IF gap >= 0 THEN gap ELSE -gap) <= (2000778 * recent) \div 100

\* The first check of validate_detection_data that fails, or "none".
validate_detection_data(ts, meta) ==
    LET groups == {meta[i].method_group : i \in 1..Len(meta)}
                  \cup {ts[i].method_group : i \in 1..Len(ts)}
        recent == SelectSeq(meta, LAMBDA r : r.disc_year >= 2015)
        transit == SelectSeq(recent, LAMBDA r : r.method_group = "Transit")
    IN  IF SumSeq([i \in 1..Len(ts) |-> ts[i].discoveries]) # RowCount(meta)
        THEN "counts differ"
        ELSE IF \E g \in groups :
                  GroupTotal(ts, g) #
                      RowCount(SelectSeq(meta, LAMBDA r : r.method_group = g))
        THEN "method totals differ"
        ELSE IF ~ CloseToDocumentedShare(RowCount(transit), RowCount(recent))
        THEN "transit share"
        ELSE "none"

\* ------------------------------------------------------------------------
\* Catalog files the runs are checked on
\* ------------------------------------------------------------------------

\* Most rows of a catalog in a run with several planets.
MaxRows == 3

AllColumns == REQUIRED_COLUMNS \cup {"pl_insol", "pl_bmasse", "default_flag"}

\* An Earth twin: every measurement present and well inside the bounds.
BaseRow ==
    [pl_name |-> "p1", hostname |-> "h1", pl_eqt |-> 288, pl_rade |-> 1000,
     pl_orbper |-> 365, st_teff |-> 5778, st_rad |-> 1000, sy_vmag |-> 6000,
     sy_dist |-> 10, sy_snum |-> 1, pl_insol |-> 1000, pl_bmasse |-> 1000,
     default_flag |-> 1]

\* Rows of the catalogs with several planets: p1; p2 with the measurements of p1;
\* a cooler candidate in a binary; a giant without a mass; a row with a negative
\* distance; a second, non-default solution of p1.
SmallRows ==
    { BaseRow,
      [BaseRow EXCEPT !.pl_name = "p2", !.hostname = "h2"],
      [BaseRow EXCEPT !.pl_name = "p3", !.hostname = "h3", !.pl_eqt = 330,
                      !.pl_insol = NaN, !.pl_rade = 2000, !.pl_bmasse = NaN,
                      !.sy_snum = 2, !.sy_dist = 500],
      [BaseRow EXCEPT !.pl_name = "p4", !.hostname = "h4", !.pl_rade = 4000,
                      !.pl_bmasse = NaN],
      [BaseRow EXCEPT !.pl_name = "p5", !.hostname = "h5", !.sy_dist = -5],
      [BaseRow EXCEPT !.default_flag = 0, !.pl_eqt = 300] }

Vary(row, column, values) == {[row EXCEPT ![column] = v] : v \in values}

NoInsol == [BaseRow EXCEPT !.pl_insol = NaN]

NoMass == [BaseRow EXCEPT !.pl_bmasse = NaN]

\* Rows of the one-planet catalogs: the Earth twin with one measurement moved to
\* a missing value, to each side of each bound of the selector, or onto a ramp
\* of the scoring windows.
RichRows ==
    Vary(BaseRow, "pl_name", {NA}) \cup Vary(BaseRow, "hostname", {NA})
    \cup Vary(BaseRow, "pl_eqt", {NaN, 149, 150, 210, 288, 360, 450, 451})
    \cup Vary(BaseRow, "pl_insol", {NaN, 99, 100, 260, 1950, 3000, 3001})
    \cup Vary(NoInsol, "pl_eqt", {150, 335, 336})
    \cup Vary(BaseRow, "pl_rade", {NaN, 399, 400, 675, 2050, 3500, 3501})
    \cup Vary(BaseRow, "pl_bmasse", {NaN, 199, 200, 500, 7500, 15000, 15001})
    \cup Vary(NoMass, "pl_rade", {400, 700, 1500, 1501, 3500, 4000})
    \cup Vary(BaseRow, "pl_orbper", {NaN, 2, 3, 21, 565, 800, 801})
    \cup Vary(BaseRow, "st_teff", {NaN, 2999, 3000, 3700, 6800, 7200, 7201})
    \cup Vary(BaseRow, "st_rad", {NaN, 199, 200, 2500, 2501})
    \cup Vary(BaseRow, "sy_vmag", {NaN, -1, 0, 11500, 18000, 18001})
    \cup Vary(BaseRow, "sy_dist", {NaN, -5, 0, 1, 80, 1000, 1001})
    \cup Vary(BaseRow, "sy_snum", {NaN, 0, 2, 3, 4, 6})

SeqsUpTo(S, n) == UNION {[1..k -> S] : k \in 0..n}

\* The catalog files: up to MaxRows of the small rows, one rich row, or the
\* Earth twin in a file that lacks one column.
CatalogFiles ==
    {[columns |-> AllColumns, rows |-> rows] : rows \in SeqsUpTo(SmallRows, MaxRows)}
    \cup {[columns |-> AllColumns, rows |-> <<r>>] : r \in RichRows}
    \cup {[columns |-> AllColumns \ {c}, rows |-> <<BaseRow>>] : c \in AllColumns}

\* The discovery columns of a file whose Transit share since 2015 is the
\* documented one: 45 of 58; Imaging has less than 2% of the 61 rows kept.
DocumentedDetections ==
    << [disc_year |-> 2016, discoverymethod |-> <<"Transit">>, default_flag |-> 1, rows |-> 45],
       [disc_year |-> 2016, discoverymethod |-> <<"Radial Velocity">>, default_flag |-> 1, rows |-> 12],
       [disc_year |-> 2010, discoverymethod |-> <<"Transit", " ">>, default_flag |-> 1, rows |-> 3],
       [disc_year |-> 2018, discoverymethod |-> <<"Imaging">>, default_flag |-> 1, rows |-> 1],
       [disc_year |-> NaN, discoverymethod |-> <<"Transit">>, default_flag |-> 1, rows |-> 1],
       [disc_year |-> 1988, discoverymethod |-> <<"Radial Velocity">>, default_flag |-> 1, rows |-> 1],
       [disc_year |-> 2017, discoverymethod |-> <<>>, default_flag |-> 1, rows |-> 1],
       [disc_year |-> 2016, discoverymethod |-> <<"Transit">>, default_flag |-> 0, rows |-> 2] >>

\* Files with other shares: three Transit rows of four since 2015; nothing
\* since 2015; no row at all.
DetectionFiles ==
    { DocumentedDetections,
      << [disc_year |-> 2016, discoverymethod |-> <<"Transit">>, default_flag |-> 1, rows |-> 3],
         [disc_year |-> 2016, discoverymethod |-> <<"Microlensing">>, default_flag |-> 1, rows |-> 1] >>,
      << [disc_year |-> 1995, discoverymethod |-> <<"Radial Velocity">>, default_flag |-> 1, rows |-> 2],
         [disc_year |-> 1995, discoverymethod |-> <<" ", "Radial Velocity">>, default_flag |-> 1, rows |-> 1] >>,
      << >> }

\* ------------------------------------------------------------------------
\* State
\* ------------------------------------------------------------------------

VARIABLES
    catalog,        \* the file at DATA_PATH
    sortImpl,       \* how the build's quicksort leaves equal keys
    detectionFile,  \* the discovery columns of the file at DATA_PATH
    AGGREGATE_WEIGHTS,
    OBSERVABILITY_COMPONENT_WEIGHTS,
    storedScores,   \* results/habitable_priority_scores.csv
    authCache,      \* data/authoritative_habitable_sample.csv
    run,            \* the entry point running: "main", "validate", "dashboard"
    pc,             \* its next statement
    error,          \* the exception that ended the run, or "none"
    base,           \* load_planet_catalog()
    inputs,         \* select_habitable_inputs(base)
    priority,       \* compute_priority_scores(inputs)
    comparison,     \* compare_with_authoritative(priority)
    merged,         \* build_priority_frame()
    records,        \* the ValidationRecords of validate_priority_table
    written,        \* the files this run has written
    engineCalls,    \* calls of compute_priority_scores in this run
    lastCall,       \* the argument and the result of the engine's latest call
    reference,      \* what load_authoritative_sample did in this run
    downloaded,     \* the table the latest successful download returned
    report,         \* validation_report.md of this run
    timeseries,     \* aggregate_method_timeseries(detection) of build_detection_frames
    detection_meta, \* the rows build_detection_frames keeps for audits
    call,           \* a function called on its own, with its arguments
    result,         \* what it returned
    cutScore,       \* a score handed to pd.cut on its own
    cutBand         \* the band pd.cut gave it

vars == <<catalog, sortImpl, detectionFile, AGGREGATE_WEIGHTS, OBSERVABILITY_COMPONENT_WEIGHTS,
          storedScores, authCache, run, pc, error, base, inputs, priority,
          comparison, merged, records, written, engineCalls, lastCall,
          reference, downloaded, report, timeseries, detection_meta,
          call, result, cutScore, cutBand>>

environment == <<catalog, sortImpl, detectionFile>>

globals == <<AGGREGATE_WEIGHTS, OBSERVABILITY_COMPONENT_WEIGHTS>>

files == <<storedScores, authCache>>

history == <<reference, downloaded, report>>

frames == <<timeseries, detection_meta>>

functions == <<call, result>>

locals == <<base, inputs, priority, comparison, merged, records>>

cut == <<cutScore, cutBand>>

NoTable == <<>>

\* A path without a file, and a file holding a table.
Absent == [exists |-> FALSE, rows |-> <<>>]

OnDisk(rows) == [exists |-> TRUE, rows |-> rows]

\* A file holding a table with its header.
OnDiskFrame(frame) == [exists |-> TRUE, columns |-> frame.columns, rows |-> frame.rows]

\* pd.read_csv of such a file.
ReadFrame(file) == [columns |-> file.columns, rows |-> file.rows]

NoReference == [source |-> "none", fetched |-> FALSE, outcome |-> "none"]

NoReport == [written |-> FALSE, overall |-> "", checks |-> <<>>]

NoFunction == [fn |-> "none"]

NoResult == [returned |-> FALSE]

NoFrame == [columns |-> {}, rows |-> <<>>]

NoDownload == [got |-> FALSE, table |-> NoFrame]

NoCall == [called |-> FALSE, input |-> <<>>, output |-> <<>>]

FreshRun ==
    /\ error = "none"
    /\ base = NoFrame
    /\ inputs = NoTable
    /\ priority = NoTable
    /\ comparison = NoTable
    /\ merged = NoTable
    /\ records = <<>>
    /\ written = {}
    /\ engineCalls = 0
    /\ reference = NoReference
    /\ report = NoReport
    /\ timeseries = NoTable
    /\ detection_meta = NoTable

Init ==
    /\ catalog \in CatalogFiles
    /\ sortImpl \in {"stable", "unstable"}
    /\ detectionFile = DocumentedDetections
    /\ AGGREGATE_WEIGHTS = AGGREGATE_WEIGHTS_0
    /\ OBSERVABILITY_COMPONENT_WEIGHTS = OBSERVABILITY_COMPONENT_WEIGHTS_0
    /\ storedScores = Absent
    /\ authCache \in {Absent, OnDiskFrame(ReferenceTable)}
    /\ run = "none"
    /\ pc = "idle"
    /\ FreshRun
    /\ lastCall = NoCall
    /\ downloaded = NoDownload
    /\ call = NoFunction
    /\ result = NoResult
    /\ cutScore = NaN
    /\ cutBand = NA

\* ------------------------------------------------------------------------
\* Steps shared by the three entry points
\* ------------------------------------------------------------------------

\* An exception leaves the entry point: the run ends.
Raise(exception) ==
    /\ error' = exception
    /\ pc' = "raised"

Idle == pc \in {"idle", "done", "raised"}

Start(entry, first) ==
    /\ Idle
    /\ run' = entry
    /\ pc' = first
    /\ error' = "none"
    /\ base' = NoFrame
    /\ inputs' = NoTable
    /\ priority' = NoTable
    /\ comparison' = NoTable
    /\ merged' = NoTable
    /\ records' = <<>>
    /\ written' = {}
    /\ engineCalls' = 0
    /\ reference' = NoReference
    /\ report' = NoReport
    /\ timeseries' = NoTable
    /\ detection_meta' = NoTable
    /\ UNCHANGED <<environment, globals, files, lastCall, downloaded, cut, functions>>

\* python analysis/habitable_priority.py
StartMain ==
    /\ Start("main", "load")

\* validate_priority_table(), as validate_analysis.main calls it
StartValidate ==
    /\ Start("validate", "load")

\* python analysis/build_dashboard.py
StartDashboard ==
    /\ Start("dashboard", "detect")

\* catalog = load_planet_catalog()
LoadCatalog ==
    /\ pc = "load"
    /\ IF "default_flag" \in catalog.columns
       THEN /\ base' = load_planet_catalog(catalog)
            /\ pc' = "select"
            /\ UNCHANGED error
       ELSE /\ Raise("KeyError")
            /\ UNCHANGED base
    /\ UNCHANGED <<environment, globals, files, run, inputs, priority, comparison,
                   merged, records, written, engineCalls, lastCall, history, cut, frames, functions>>

\* inputs = select_habitable_inputs(catalog)
\* The selector filtering the table it was handed rather than a copy of it.
SelectInputsInPlace ==
    /\ pc = "select"
    /\ IF SelectRaises(base)
       THEN /\ Raise("KeyError")
            /\ UNCHANGED <<inputs, base>>
       ELSE /\ inputs' = select_habitable_inputs(base)
            /\ base' = [base EXCEPT !.rows = select_habitable_inputs(base)]
            /\ pc' = IF run = "main" THEN "check" ELSE "score"
            /\ UNCHANGED error
    /\ UNCHANGED <<environment, globals, files, run, priority, comparison,
                   merged, records, written, engineCalls, lastCall, history, cut,
                   frames, functions>>

SelectInputs ==
    /\ pc = "select"
    /\ IF SelectRaises(base)
       THEN /\ Raise("KeyError")
            /\ UNCHANGED inputs
       ELSE /\ inputs' = select_habitable_inputs(base)
            /\ pc' = IF run = "main" THEN "check" ELSE "score"
            /\ UNCHANGED error
    /\ UNCHANGED <<environment, globals, files, run, base, priority, comparison,
                   merged, records, written, engineCalls, lastCall, history, cut, frames, functions>>

\* The engine rescaling a weight of the module-level table in place on each call.
ScoreInputsRetuning ==
    /\ pc = "score"
    /\ priority' = compute_priority_scores(inputs, AGGREGATE_WEIGHTS,
                                           OBSERVABILITY_COMPONENT_WEIGHTS, sortImpl)
    /\ AGGREGATE_WEIGHTS' = [AGGREGATE_WEIGHTS EXCEPT !.climate_score = @ \div 2]
    /\ UNCHANGED OBSERVABILITY_COMPONENT_WEIGHTS
    /\ engineCalls' = engineCalls + 1
    /\ lastCall' = [called |-> TRUE, input |-> inputs, output |-> priority']
    /\ pc' = CASE run = "main" -> "compare"
               [] run = "validate" -> "stored"
               [] OTHER -> "merge"
    /\ UNCHANGED <<history, environment, files, run, error, base, inputs, comparison,
                   merged, records, written, cut, frames, functions>>

\* priority = compute_priority_scores(inputs)
ScoreInputs ==
    /\ pc = "score"
    /\ priority' = compute_priority_scores(inputs, AGGREGATE_WEIGHTS,
                                           OBSERVABILITY_COMPONENT_WEIGHTS, sortImpl)
    /\ engineCalls' = engineCalls + 1
    /\ lastCall' = [called |-> TRUE, input |-> inputs, output |-> priority']
    /\ pc' = CASE run = "main" -> "compare"
               [] run = "validate" -> "stored"
               [] OTHER -> "merge"
    /\ UNCHANGED <<history, environment, globals, files, run, error, base, inputs, comparison,
                   merged, records, written, cut, frames, functions>>

\* ------------------------------------------------------------------------
\* habitable_priority.main
\* ------------------------------------------------------------------------

\* if inputs.empty: raise ValueError(...)
MainCheckEmpty ==
    /\ run = "main" /\ pc = "check"
    /\ IF inputs = <<>> THEN Raise("ValueError")
       ELSE pc' = "score" /\ UNCHANGED error
    /\ UNCHANGED <<environment, globals, files, run, locals, written, engineCalls,
                   lastCall, history, cut, frames, functions>>

\* The sample on disk used as the fallback of a download that was tried first.
MainCompareCachedAfterFetch ==
    /\ run = "main" /\ pc = "compare"
    /\ authCache.exists
    /\ reference' = [source |-> "cache", fetched |-> TRUE, outcome |-> "URLError"]
    /\ comparison' = compare_with_authoritative(priority, ReadFrame(authCache))
    /\ pc' = "export"
    /\ UNCHANGED <<environment, globals, files, run, error, base, inputs, priority,
                   merged, records, written, engineCalls, lastCall, downloaded,
                   report, cut, frames, functions>>

\* comparison = compare_with_authoritative(priority) with the sample on disk:
\* load_authoritative_sample returns pd.read_csv(AUTHORITATIVE_SAMPLE_PATH).
MainCompareCached ==
    /\ run = "main" /\ pc = "compare"
    /\ authCache.exists
    /\ reference' = [source |-> "cache", fetched |-> FALSE, outcome |-> "none"]
    /\ comparison' = compare_with_authoritative(priority, ReadFrame(authCache))
    /\ pc' = "export"
    /\ UNCHANGED <<environment, globals, files, run, error, base, inputs, priority,
                   merged, records, written, engineCalls, lastCall, downloaded,
                   report, cut, frames, functions>>

\* The downloaded table used without being written to AUTHORITATIVE_SAMPLE_PATH.
MainCompareDownloadUnsaved ==
    /\ run = "main" /\ pc = "compare"
    /\ ~ authCache.exists
    /\ \E outcome \in FetchOutcomes, table \in References :
         LET remote == download_authoritative_catalog(outcome, table)
         IN  IF remote.raised # "none" \/ remote.value = None
             THEN /\ Raise(IF remote.raised # "none" THEN remote.raised
                           ELSE "FileNotFoundError")
                  /\ reference' = [source |-> "unavailable", fetched |-> TRUE,
                                    outcome |-> outcome]
                  /\ UNCHANGED <<comparison, downloaded>>
             ELSE /\ downloaded' = [got |-> TRUE, table |-> remote.value]
                  /\ reference' = [source |-> "remote", fetched |-> TRUE,
                                    outcome |-> outcome]
                  /\ comparison' = compare_with_authoritative(priority, remote.value)
                  /\ pc' = "export"
                  /\ UNCHANGED error
    /\ UNCHANGED <<environment, globals, files, run, base, inputs, priority,
                   merged, records, written, engineCalls, lastCall, report, cut, frames, functions>>

\* comparison = compare_with_authoritative(priority) without a sample on disk:
\* the download is tried; its table is written to AUTHORITATIVE_SAMPLE_PATH and
\* used; after None load_authoritative_sample raises FileNotFoundError; an
\* exception of the download leaves main.
MainCompareDownload ==
    /\ run = "main" /\ pc = "compare"
    /\ ~ authCache.exists
    /\ \E outcome \in FetchOutcomes, table \in References :
         LET remote == download_authoritative_catalog(outcome, table)
         IN  IF remote.raised # "none"
             THEN /\ Raise(remote.raised)
                  /\ reference' = [source |-> "unavailable", fetched |-> TRUE,
                                    outcome |-> outcome]
                  /\ UNCHANGED <<authCache, comparison, downloaded>>
             ELSE IF remote.value = None
             THEN /\ Raise("FileNotFoundError")
                  /\ reference' = [source |-> "unavailable", fetched |-> TRUE,
                                    outcome |-> outcome]
                  /\ UNCHANGED <<authCache, comparison, downloaded>>
             ELSE /\ authCache' = OnDiskFrame(remote.value)
                  /\ downloaded' = [got |-> TRUE, table |-> remote.value]
                  /\ reference' = [source |-> "remote", fetched |-> TRUE,
                                    outcome |-> outcome]
                  /\ comparison' = compare_with_authoritative(priority, remote.value)
                  /\ pc' = "export"
                  /\ UNCHANGED error
    /\ UNCHANGED <<environment, globals, storedScores, run, base, inputs, priority,
                   merged, records, written, engineCalls, lastCall, report, cut, frames, functions>>

\* export_priority_table(priority)
MainExportPriority ==
    /\ run = "main" /\ pc = "export"
    /\ storedScores' = OnDisk(ToCsv(priority))
    /\ written' = written \cup {"habitable_priority_scores.csv", "habitable_top20.md"}
    /\ pc' = "export_comparison"
    /\ UNCHANGED <<environment, globals, authCache, run, error, locals, engineCalls,
                   lastCall, history, cut, frames, functions>>

\* export_authoritative_comparison(comparison), then the three figures
MainExportComparison ==
    /\ run = "main" /\ pc = "export_comparison"
    /\ written' = written \cup {"habitable_authoritative_comparison.csv",
                                "temp_radius_priority.png", "priority_components.png",
                                "priority_radar.png"}
    /\ pc' = "done"
    /\ UNCHANGED <<environment, globals, files, run, error, locals, engineCalls,
                   lastCall, history, cut, frames, functions>>

\* ------------------------------------------------------------------------
\* validate_analysis.validate_priority_table
\* ------------------------------------------------------------------------

\* From stored_path.exists() to the return: one record when the stored table is
\* missing, else the four checks; 1 / len(priority) raises on an empty table.
ValidateStored ==
    /\ run = "validate" /\ pc = "stored"
    /\ IF ~ storedScores.exists
       THEN /\ records' = <<ValidationRecord("Priority table availability", "fail")>>
            /\ pc' = "report"
            /\ UNCHANGED error
       ELSE IF Len(priority) = 0
       THEN /\ Raise("ZeroDivisionError")
            /\ UNCHANGED records
       ELSE /\ records' = PriorityRecords(priority, ReadCsv(storedScores.rows))
            /\ pc' = "report"
            /\ UNCHANGED error
    /\ UNCHANGED <<environment, globals, files, run, base, inputs, priority,
                   comparison, merged, written, engineCalls, lastCall, history, cut, frames, functions>>

\* records.extend(validate_priority_table()); export_reports(records): the
\* records of the detection checks come first.
ExportReports ==
    /\ run = "validate" /\ pc = "report"
    /\ \E detection \in DetectionRecords :
         report' = export_reports(detection \o records)
    /\ written' = written \cup {"validation_report.json", "validation_report.md"}
    /\ pc' = "done"
    /\ UNCHANGED <<environment, globals, files, run, error, locals, engineCalls,
                   lastCall, reference, downloaded, cut, frames, functions>>

\* ------------------------------------------------------------------------
\* build_dashboard.main
\* ------------------------------------------------------------------------

\* timeseries, facility, detection_meta = build_detection_frames(); with no
\* detection row the window range(2015, nan + 1) raises TypeError.
DashBuildDetection ==
    /\ run = "dashboard" /\ pc = "detect"
    /\ LET detection == label_detection_methods(load_detection_data(detectionFile))
       IN  IF detection = <<>>
           THEN /\ Raise("TypeError")
                /\ UNCHANGED frames
           ELSE /\ timeseries' = aggregate_method_timeseries(detection)
                /\ detection_meta' = detection
                /\ pc' = "load"
                /\ UNCHANGED error
    /\ UNCHANGED <<environment, globals, files, run, locals, written,
                   engineCalls, lastCall, history, cut, functions>>

\* merged = priority.merge(base[[...]], on="pl_name", how="left")
DashMerge ==
    /\ run = "dashboard" /\ pc = "merge"
    /\ merged' = LET m == Merge(priority, base.rows, "left")
                  IN  [i \in 1..Len(m) |-> m[i].l]
    /\ pc' = "validate_detection"
    /\ UNCHANGED <<environment, globals, files, run, error, base, inputs, priority,
                   comparison, records, written, engineCalls, lastCall, history, cut, frames, functions>>

\* validate_detection_data(timeseries, detection_meta)
DashValidateDetection ==
    /\ run = "dashboard" /\ pc = "validate_detection"
    /\ IF validate_detection_data(timeseries, detection_meta) = "none"
       THEN pc' = "validate_priority" /\ UNCHANGED error
       ELSE Raise("ValueError")
    /\ UNCHANGED <<environment, globals, files, run, locals, written, engineCalls,
                   lastCall, history, cut, frames, functions>>

\* validate_priority_data(priority) reporting without raising.
DashValidatePriorityLenient ==
    /\ run = "dashboard" /\ pc = "validate_priority"
    /\ pc' = "write"
    /\ UNCHANGED <<environment, globals, files, run, error, locals, written,
                   engineCalls, lastCall, history, cut, frames, functions>>

\* validate_priority_data(priority)
DashValidatePriority ==
    /\ run = "dashboard" /\ pc = "validate_priority"
    /\ IF validate_priority_data(merged) = "none"
       THEN pc' = "write" /\ UNCHANGED error
       ELSE Raise("ValueError")
    /\ UNCHANGED <<environment, globals, files, run, locals, written, engineCalls,
                   lastCall, history, cut, frames, functions>>

\* the four charts, then assemble_html(...)
DashWrite ==
    /\ run = "dashboard" /\ pc = "write"
    /\ written' = written \cup {"index.html"}
    /\ pc' = "done"
    /\ UNCHANGED <<environment, globals, files, run, error, locals, engineCalls,
                   lastCall, history, cut, frames, functions>>

Next ==
    \/ StartMain \/ StartValidate \/ StartDashboard
    \/ LoadCatalog \/ SelectInputs \/ ScoreInputs
    \/ MainCheckEmpty \/ MainCompareCached \/ MainCompareDownload
    \/ MainExportPriority \/ MainExportComparison
    \/ ValidateStored \/ ExportReports
    \/ DashBuildDetection \/ DashMerge \/ DashValidateDetection
    \/ DashValidatePriority \/ DashWrite

Spec == Init /\ [][Next]_vars

\* ------------------------------------------------------------------------
\* Validation against a table stored by an earlier run
\* ------------------------------------------------------------------------

\* results/habitable_priority_scores.csv as main writes it for a catalog.
ScoresOf(rows) ==
    ToCsv(compute_priority_scores(
              select_habitable_inputs(
                  load_planet_catalog([columns |-> AllColumns, rows |-> rows])),
              AGGREGATE_WEIGHTS_0, OBSERVABILITY_COMPONENT_WEIGHTS_0, "stable"))

\* The same file after a run of an engine that scored and banded otherwise.
Rescored(table) ==
    [i \in 1..Len(table) |->
        [table[i] EXCEPT !.priority_score = @ - 300, !.priority_band = "Follow-up"]]

\* Stored tables of earlier runs: without rows, of the Earth twin, of the Earth
\* twin and the cooler candidate, of the Earth twin by another engine.
StoredTables ==
    LET p1 == BaseRow
        p3 == CHOOSE r \in SmallRows : r.pl_name = "p3"
    IN  { <<>>, ScoresOf(<<p1>>), ScoresOf(<<p1, p3>>), Rescored(ScoresOf(<<p1>>)) }

InitValidate ==
    /\ catalog \in CatalogFiles
    /\ sortImpl = "stable"
    /\ detectionFile = DocumentedDetections
    /\ AGGREGATE_WEIGHTS = AGGREGATE_WEIGHTS_0
    /\ OBSERVABILITY_COMPONENT_WEIGHTS = OBSERVABILITY_COMPONENT_WEIGHTS_0
    /\ storedScores \in {Absent} \cup {OnDisk(t) : t \in StoredTables}
    /\ authCache = Absent
    /\ run = "none"
    /\ pc = "idle"
    /\ FreshRun
    /\ lastCall = NoCall
    /\ downloaded = NoDownload
    /\ call = NoFunction
    /\ result = NoResult
    /\ cutScore = NaN
    /\ cutBand = NA

SpecValidate == InitValidate /\ [][Next]_vars

\* ------------------------------------------------------------------------
\* Dashboard builds on files with other discovery columns
\* ------------------------------------------------------------------------

InitDashboard ==
    /\ catalog \in {file \in CatalogFiles : Len(file.rows) <= 2}
    /\ sortImpl = "stable"
    /\ detectionFile \in DetectionFiles
    /\ AGGREGATE_WEIGHTS = AGGREGATE_WEIGHTS_0
    /\ OBSERVABILITY_COMPONENT_WEIGHTS = OBSERVABILITY_COMPONENT_WEIGHTS_0
    /\ storedScores = Absent
    /\ authCache = Absent
    /\ run = "none"
    /\ pc = "idle"
    /\ FreshRun
    /\ lastCall = NoCall
    /\ downloaded = NoDownload
    /\ call = NoFunction
    /\ result = NoResult
    /\ cutScore = NaN
    /\ cutBand = NA

SpecDashboard == InitDashboard /\ [][Next]_vars

\* ------------------------------------------------------------------------
\* Helper transforms and the selector called on their own
\* ------------------------------------------------------------------------

\* Largest edge of the small windows, and most stars of a system.
MaxEdge == 5

MaxStars == 8

\* The windows compute_priority_scores uses (temperature, insolation, log
\* period, stellar temperature, radius, mass), and every small window.
Windows ==
    { <<180, 240, 320, 400>>, <<200, 320, 1700, 2200>>,
      <<Log10Milli(15), Log10Milli(30), Log10Milli(400), Log10Milli(800)>>,
      <<3300, 4100, 6400, 7200>>, <<500, 850, 1600, 2500>>,
      <<300, 700, 5000, 10000>> }
    \cup {w \in [1..4 -> 0..MaxEdge] : w[1] < w[2] /\ w[2] < w[3] /\ w[3] < w[4]}

\* Values at, next to and between the edges of a window.
ValuesAround(w) ==
    {w[k] + e : k \in 1..4, e \in {-1, 0, 1}}
    \cup {(w[k] + w[k + 1]) \div 2 : k \in 1..3}

TrapezoidCalls ==
    UNION {{[fn |-> "trapezoidal_membership", value |-> v, window |-> w] :
                v \in ValuesAround(w)} : w \in Windows}

SystemCalls == {[fn |-> "system_score", sy_snum |-> n] : n \in 0..MaxStars}

\* Catalogs for the selector: every catalog file that has all the columns.
SelectCalls ==
    {[fn |-> "select_habitable_inputs", df |-> file] :
        file \in {f \in CatalogFiles : f.columns = AllColumns}}

InitFunctions ==
    /\ catalog = [columns |-> AllColumns, rows |-> <<>>]
    /\ sortImpl = "stable"
    /\ detectionFile = DocumentedDetections
    /\ AGGREGATE_WEIGHTS = AGGREGATE_WEIGHTS_0
    /\ OBSERVABILITY_COMPONENT_WEIGHTS = OBSERVABILITY_COMPONENT_WEIGHTS_0
    /\ storedScores = Absent
    /\ authCache = Absent
    /\ run = "function"
    /\ pc = "call"
    /\ FreshRun
    /\ lastCall = NoCall
    /\ downloaded = NoDownload
    /\ call \in TrapezoidCalls \cup SystemCalls \cup SelectCalls
    /\ result = NoResult
    /\ cutScore = NaN
    /\ cutBand = NA

Returns(value) ==
    /\ result' = value
    /\ pc' = "done"
    /\ UNCHANGED <<environment, globals, files, run, error, locals, written,
                   engineCalls, lastCall, history, cut, frames, call>>

\* trapezoidal_membership(values, lower_start, lower_full, upper_full, upper_end)
ApplyTrapezoid ==
    /\ pc = "call" /\ call.fn = "trapezoidal_membership"
    /\ Returns([returned |-> TRUE,
                value |-> trapezoidal_membership(call.value, call.window[1],
                              call.window[2], call.window[3], call.window[4])])

\* data["system_score"] = np.where(...) for a system and for one with a star more
ApplySystemScore ==
    /\ pc = "call" /\ call.fn = "system_score"
    /\ Returns([returned |-> TRUE,
                value |-> SystemScore(call.sy_snum),
                next |-> SystemScore(call.sy_snum + 1)])

\* select_habitable_inputs(load_planet_catalog()), the selector on its own
\* result, and compute_priority_scores on the selection.
ApplySelect ==
    /\ pc = "call" /\ call.fn = "select_habitable_inputs"
    /\ LET loaded == load_planet_catalog(call.df)
           once == select_habitable_inputs(loaded)
           again == [columns |-> loaded.columns
                                    \cup {"pl_insol_effective", "pl_bmasse_filled"},
                     rows |-> once]
       IN  Returns([returned |-> TRUE, input |-> loaded.rows, once |-> once,
                    twice |-> select_habitable_inputs(again),
                    scored |-> compute_priority_scores(once, AGGREGATE_WEIGHTS,
                                   OBSERVABILITY_COMPONENT_WEIGHTS, sortImpl)])

NextFunctions == ApplyTrapezoid \/ ApplySystemScore \/ ApplySelect

SpecFunctions == InitFunctions /\ [][NextFunctions]_vars

\* ------------------------------------------------------------------------
\* pd.cut on its own
\* ------------------------------------------------------------------------

InitCut ==
    /\ catalog = [columns |-> AllColumns, rows |-> <<>>]
    /\ sortImpl = "stable"
    /\ detectionFile = DocumentedDetections
    /\ AGGREGATE_WEIGHTS = AGGREGATE_WEIGHTS_0
    /\ OBSERVABILITY_COMPONENT_WEIGHTS = OBSERVABILITY_COMPONENT_WEIGHTS_0
    /\ storedScores = Absent
    /\ authCache = Absent
    /\ run = "cut"
    /\ pc = "cut"
    /\ FreshRun
    /\ lastCall = NoCall
    /\ downloaded = NoDownload
    /\ call = NoFunction
    /\ result = NoResult
    /\ cutScore \in 0..SCALE
    /\ cutBand = NA

\* data["priority_band"] = pd.cut(data["priority_score"], bins, labels, include_lowest=True)
CutScore ==
    /\ pc = "cut"
    /\ cutBand' = PdCut(cutScore, bins, labels)
    /\ pc' = "done"
    /\ UNCHANGED <<environment, globals, files, run, error, locals, written,
                   engineCalls, lastCall, history, cutScore, frames, functions>>

NextCut == CutScore

SpecCut == InitCut /\ [][NextCut]_vars

\* ------------------------------------------------------------------------
\* Properties
\* ------------------------------------------------------------------------

\* The selector has returned in this run.
Selected == pc \in {"check", "score", "compare", "stored", "report", "merge", "export",
                    "export_comparison", "validate_detection", "validate_priority",
                    "write", "done"}
            \/ (pc = "raised" /\ run = "main" /\ error = "ValueError")
            \/ (pc = "raised" /\ engineCalls > 0)

\* The engine has returned in this run.
Scored == engineCalls > 0

InUnit(x) == x # NaN /\ x # NegInf /\ 0 <= x /\ x <= SCALE

\* C1 as claimed: thresholds inclusive on the lower edge: [0, 0.58) is "Context",
\* [0.58, 0.70) is "Follow-up", [0.70, 1.0] is "High Priority".
C1_LowerInclusiveBands ==
    (pc = "done" /\ run = "cut") =>
        cutBand = IF cutScore < 580 THEN "Context"
                  ELSE IF cutScore < 700 THEN "Follow-up"
                  ELSE "High Priority"

\* C1 amended: every score in [0, 1] gets exactly one band, with thresholds
\* inclusive on the upper edge: [0, 0.58] is "Context", (0.58, 0.70] is
\* "Follow-up", (0.70, 1.0] is "High Priority"; 0.58 itself is "Context" and
\* 0.70 itself is "Follow-up".
C1_UpperInclusiveBands ==
    (pc = "done" /\ run = "cut") =>
        /\ cutBand \in {"Context", "Follow-up", "High Priority"}
        /\ cutBand = "Context" <=> (0 <= cutScore /\ cutScore <= 580)
        /\ cutBand = "Follow-up" <=> (580 < cutScore /\ cutScore <= 700)
        /\ cutBand = "High Priority" <=> (700 < cutScore /\ cutScore <= 1000)

C1_Witness ==
    pc = "done" /\ run = "cut" /\ cutScore = 700 /\ cutBand = "Follow-up"

SubScores ==
    {"temp_score", "insolation_score", "period_score", "stellar_temp_score",
     "radius_score", "mass_score", "brightness_score", "transit_visibility_score",
     "distance_score"}

PillarScores == {"climate_score", "structure_score", "observability_score", "system_score"}

\* C2 as claimed: every sub-score and every pillar score of every scored row is a
\* number in [0, 1].
C2_ScoresInUnitInterval ==
    Scored => \A i \in 1..Len(priority) :
                  \A c \in SubScores \cup PillarScores : InUnit(priority[i][c])

\* C3: every scored row's priority_score is (0.45 climate + 0.25 structure
\* + 0.22 observability + 0.08 system) over the sum of the weights (a missing
\* pillar gives a missing score), and it lies in [0, 1] whenever the four pillars do.
C3_WeightedCombination ==
    Scored => \A i \in 1..Len(priority) :
        LET r == priority[i]
            pillars == {r.climate_score, r.structure_score, r.observability_score,
                        r.system_score}
        IN  /\ r.priority_score =
                 IF NaN \in pillars THEN NaN
                 ELSE (45 * r.climate_score + 25 * r.structure_score
                       + 22 * r.observability_score + 8 * r.system_score)
                      \div (45 + 25 + 22 + 8)
            /\ (\A x \in pillars : InUnit(x)) => InUnit(r.priority_score)

C3_Witness ==
    /\ Scored
    /\ \E i \in 1..Len(priority) :
          /\ priority[i].priority_score # NaN
          /\ priority[i].climate_score # priority[i].structure_score
          /\ priority[i].structure_score # priority[i].observability_score
          /\ priority[i].system_score < SCALE

\* IEEE comparison: false when either side is missing.
Greater(a, b) == a # NaN /\ b # NaN /\ a > b

InputColumns ==
    REQUIRED_COLUMNS \cup {"index", "pl_insol", "pl_insol_effective", "pl_bmasse",
                           "pl_bmasse_filled"}

Project(r, columns) == [c \in columns |-> r[c]]

Indexes(rows) == {rows[i].index : i \in 1..Len(rows)}

\* C4: the scored table never rises in priority_score from an earlier row to a
\* later one, and it holds exactly the rows of the input table, reordered.
C4_SortedSameRows ==
    Scored =>
        /\ \A i, j \in 1..Len(priority) :
              i < j => ~ Greater(priority[j].priority_score, priority[i].priority_score)
        /\ Len(priority) = Len(inputs)
        /\ Indexes(priority) = Indexes(inputs)
        /\ \A i \in 1..Len(priority) : \E k \in 1..Len(inputs) :
              Project(priority[i], InputColumns) = Project(inputs[k], InputColumns)

C4_Witness ==
    /\ Scored
    /\ Len(priority) = 3
    /\ inputs[1].index = 0 /\ priority[1].index # 0
    /\ Greater(priority[1].priority_score, priority[3].priority_score)

\* Positions in the input and in the output of the rows with a given index.
PosIn(rows, index) == CHOOSE i \in 1..Len(rows) : rows[i].index = index

TiedPairs ==
    {p \in (1..Len(inputs)) \X (1..Len(inputs)) :
        /\ p[1] < p[2]
        /\ LET a == priority[PosIn(priority, inputs[p[1]].index)].priority_score
               b == priority[PosIn(priority, inputs[p[2]].index)].priority_score
           IN  a # NaN /\ a = b}

KeepsInputOrder(p) ==
    PosIn(priority, inputs[p[1]].index) < PosIn(priority, inputs[p[2]].index)

C6_Deterministic ==
    [][(pc = "score" /\ pc' # "score" /\ lastCall.called /\ lastCall.input = inputs)
          => priority' = lastCall.output]_vars

C6_Witness ==
    /\ run = "validate" /\ pc = "stored"
    /\ storedScores.exists
    /\ Len(priority) >= 2
    /\ priority = lastCall.output
    /\ ToCsv(priority) = storedScores.rows

\* C7 as claimed: no two rows of the selected table, and no two rows of the
\* scored table, carry the same pl_name.
C7_UniqueNames ==
    /\ Selected => \A i, j \in 1..Len(inputs) :
                       i # j => inputs[i].pl_name # inputs[j].pl_name
    /\ Scored => \A i, j \in 1..Len(priority) :
                     i # j => priority[i].pl_name # priority[j].pl_name

\* The row has the ten required fields and meets every plausibility bound.
Plausible(r) ==
    /\ r.pl_name # NA /\ r.hostname # NA
    /\ \A c \in {"pl_eqt", "pl_rade", "pl_orbper", "st_teff", "st_rad", "sy_vmag",
                 "sy_dist", "sy_snum"} : r[c] # NaN
    /\ 150 <= r.pl_eqt /\ r.pl_eqt <= 450
    /\ LET insolation == IF r.pl_insol # NaN THEN r.pl_insol
                         ELSE InsolationProxy(r.pl_eqt)
       IN  100 <= insolation /\ insolation <= 3000
    /\ 400 <= r.pl_rade /\ r.pl_rade <= 3500
    /\ LET mass == IF r.pl_bmasse # NaN THEN r.pl_bmasse ELSE ApproxMass(r.pl_rade)
       IN  200 <= mass /\ mass <= 15000
    /\ 3 <= r.pl_orbper /\ r.pl_orbper <= 800
    /\ 3000 <= r.st_teff /\ r.st_teff <= 7200
    /\ 200 <= r.st_rad /\ r.st_rad <= 2500
    /\ 0 <= r.sy_vmag /\ r.sy_vmag <= 18000
    /\ r.sy_dist <= 1000

\* C8: select_habitable_inputs returns exactly the rows of its input that have
\* the ten required fields and meet every bound, ends included; in particular a
\* row with radius 4.0 and no mass is not returned.
C8_SelectsExactlyThePlausible ==
    Selected =>
        /\ Indexes(inputs) =
               {base.rows[i].index : i \in {k \in 1..Len(base.rows) : Plausible(base.rows[k])}}
        /\ \A i \in 1..Len(inputs) : \E k \in 1..Len(base.rows) :
               Project(inputs[i], DOMAIN base.rows[k]) = base.rows[k]
        /\ \A i \in 1..Len(inputs) : ~ (inputs[i].pl_rade = 4000 /\ inputs[i].pl_bmasse = NaN)

C8_Witness ==
    /\ Selected
    /\ Len(base.rows) = 2 /\ Len(inputs) = 1
    /\ base.rows[1].pl_rade = 4000 /\ base.rows[1].pl_bmasse = NaN
    /\ inputs[1].index = 1

\* C9 as claimed: with an empty selection the engine is never called and no
\* file is written: the run has aborted first.
C9_EmptySelectionIsFatal ==
    (Selected /\ inputs = <<>>) => (engineCalls = 0 /\ written = {})

\* C10: with a required column absent from the catalog, select_habitable_inputs
\* raises: the run ends in KeyError before the engine is called or a file written.
C10_MissingColumnRaises ==
    ~ (REQUIRED_COLUMNS \subseteq catalog.columns) =>
        /\ pc \in {"idle", "detect", "load", "select", "raised"}
        /\ pc = "raised" => error = "KeyError"
        /\ inputs = NoTable /\ priority = NoTable
        /\ engineCalls = 0 /\ written = {} /\ ~ storedScores.exists

C10_Witness ==
    /\ ~ (REQUIRED_COLUMNS \subseteq catalog.columns)
    /\ run = "main" /\ pc = "raised" /\ error = "KeyError"
    /\ Len(base.rows) = 1

\* ------------------------------------------------------------------------
\* Authoritative cross-check
\* ------------------------------------------------------------------------

\* compare_with_authoritative has returned in this run.
Compared == run = "main" /\ reference.source \in {"cache", "remote"}

\* The names of the reference list this run compared with, trimmed.
TrimmedNames ==
    {Word(Strip(authCache.rows[i].pl_name)) : i \in 1..Len(authCache.rows)}

\* The indicator the one cross-check field of a row, phl_confidence, can be read as.
Indicator(row) ==
    IF row.phl_confidence # NaN THEN "Match" ELSE "Not in reference"

\* C11 as claimed: every row of the scored table has one row in the comparison,
\* whose cross-check field tells "Match" when its name is a trimmed name of the
\* reference list and "Not in reference" otherwise.
C11_MatchIndicatorPerRow ==
    Compared =>
        /\ Len(comparison) = Len(priority)
        /\ \A i \in 1..Len(comparison) :
              Indicator(comparison[i]) =
                  IF comparison[i].pl_name \in TrimmedNames
                  THEN "Match" ELSE "Not in reference"

\* C12 as claimed: without a sample on disk and with a failed download the
\* cross-check is skipped and main goes on: it does not end in an exception, and
\* at its end the scored table is exported and there is no comparison.
C12_UnavailableIsNotFatal ==
    (run = "main" /\ reference.source = "unavailable") =>
        /\ pc # "raised"
        /\ pc = "done" => ("habitable_priority_scores.csv" \in written
                           /\ comparison = NoTable)

\* C13 as claimed: whatever way the download fails, no exception of it reaches
\* main: download_authoritative_catalog returns without data.
C13_FetchFailureNeverPropagates ==
    (run = "main" /\ reference.fetched /\ reference.outcome # "ok") =>
        error \notin FetchOutcomes

C15_DownloadIsCached ==
    downloaded.got =>
        /\ authCache = OnDiskFrame(downloaded.table)
        /\ (run = "main" /\ reference.source # "none") =>
              /\ reference.source \in {"cache", "remote"}
              /\ pc # "raised"
              /\ comparison = compare_with_authoritative(priority, downloaded.table)

C15_Witness ==
    /\ downloaded.got /\ downloaded.table = ReferenceNamesOnly
    /\ run = "main" /\ pc = "done"
    /\ reference.source = "cache"
    /\ Len(comparison) = 1 /\ comparison[1].pl_name = "p1"

\* ------------------------------------------------------------------------
\* Validation
\* ------------------------------------------------------------------------

\* validate_priority_table has returned in this run.
Returned == run = "validate" /\ pc \in {"report", "done"}

\* The documented checks, in their order.
DocumentedChecks ==
    << "coverage", "score equality", "band equality", "component bounds",
       "weighting reconstruction", "band distribution sanity" >>

\* The documented check a record of validate_priority_table reports.
CheckOf(name) ==
    CASE name = "Priority candidate coverage" -> "coverage"
      [] name = "Priority score equality" -> "score equality"
      [] name = "Priority band labels" -> "band equality"
      [] name = "High-priority proportion" -> "band distribution sanity"
      [] OTHER -> "none"

HighPriorityRows ==
    Cardinality({i \in 1..Len(priority) : priority[i].priority_band = "High Priority"})

\* C16 as claimed: validate_priority_table returns one record for each
\* documented check, in the documented order, with or without a stored table.
C16_OneRecordPerCheck ==
    Returned => [i \in 1..Len(records) |-> CheckOf(records[i].name)] = DocumentedChecks

\* C17 as claimed: on a catalog with all its columns, whatever its rows and
\* whatever the stored table, validate_priority_table ends in no exception and
\* returns records of status pass, fail or warn.
C17_ValidationNeverRaises ==
    (run = "validate" /\ catalog.columns = AllColumns) =>
        /\ pc # "raised"
        /\ Returned => \A i \in 1..Len(records) :
                          records[i].status \in {"pass", "fail", "warn"}

\* C18 as claimed: the record of the band distribution is "warn" when no
\* recomputed row is "High Priority" and "pass" when one or more are.
C18_WarnOnlyWithoutHighPriority ==
    (Returned /\ storedScores.exists) =>
        \A i \in 1..Len(records) :
            CheckOf(records[i].name) = "band distribution sanity" =>
                records[i].status = IF HighPriorityRows = 0 THEN "warn" ELSE "pass"

\* C19: the report written holds the records of validate_priority_table after
\* the detection records, and its overall status is "PASS" exactly when every
\* record in it has status "pass".
C19_OverallPassIffAllPass ==
    report.written =>
        /\ run = "validate" /\ pc = "done"
        /\ Len(report.checks) = 4 + Len(records)
        /\ SubSeq(report.checks, 5, Len(report.checks)) = records
        /\ report.overall = "PASS" <=>
              \A i \in 1..Len(report.checks) : report.checks[i].status = "pass"

\* A report whose only record that is not "pass" is a "warn".
C19_Witness ==
    /\ report.written /\ report.overall = "REVIEW"
    /\ Len(report.checks) = 8
    /\ \A i \in 1..8 : report.checks[i].status = IF i = 8 THEN "warn" ELSE "pass"

\* C20: the coverage record is "pass" when the recomputed names and the stored
\* names are the same set and "fail" when they are not.
C20_CoverageIffSameNames ==
    (Returned /\ storedScores.exists) =>
        /\ records[1].name = "Priority candidate coverage"
        /\ records[1].status =
              IF Names(priority) = Names(storedScores.rows) THEN "pass" ELSE "fail"

\* Every recomputed name is stored, and the stored table has one name more.
C20_Witness ==
    /\ Returned /\ storedScores.exists
    /\ Names(priority) = {"p1"} /\ Names(storedScores.rows) = {"p1", "p3"}
    /\ records[1].status = "fail"

\* ------------------------------------------------------------------------
\* Dashboard
\* ------------------------------------------------------------------------

\* C29: index.html is written only in a dashboard run in which
\* validate_detection_data and validate_priority_data have both passed on the
\* tables of that run; a dashboard run ended by an exception has written no
\* dashboard.
C29_DashboardOnlyAfterValidation ==
    /\ "index.html" \in written =>
          /\ run = "dashboard" /\ pc = "done" /\ error = "none"
          /\ validate_detection_data(timeseries, detection_meta) = "none"
          /\ validate_priority_data(merged) = "none"
    /\ (run = "dashboard" /\ pc \in {"validate_detection", "validate_priority", "raised"})
          => "index.html" \notin written

C29_Witness ==
    /\ "index.html" \in written
    /\ Len(merged) = 2 /\ Len(timeseries) = 4

\* build_detection_frames has returned in this run.
FramesBuilt == run = "dashboard" /\ detection_meta # NoTable

\* C30: no (disc_year, method_group) pair has two rows in the timeseries, the
\* discoveries add up to the number of rows aggregated, and the discoveries of
\* each method group add up to the number of rows labelled with that group.
C30_CountsConserved ==
    FramesBuilt =>
        /\ \A i, j \in 1..Len(timeseries) :
              (/\ timeseries[i].disc_year = timeseries[j].disc_year
               /\ timeseries[i].method_group = timeseries[j].method_group) => i = j
        /\ SumSeq([i \in 1..Len(timeseries) |-> timeseries[i].discoveries])
              = RowCount(detection_meta)
        /\ \A g \in {MethodOrder[k] : k \in 1..Len(MethodOrder)} :
              SumSeq([i \in 1..Len(timeseries) |->
                        IF timeseries[i].method_group = g
                        THEN timeseries[i].discoveries ELSE 0])
              = RowCount(SelectSeq(detection_meta, LAMBDA r : r.method_group = g))

\* Transit in two years, and a rare method grouped as "Other".
C30_Witness ==
    /\ FramesBuilt
    /\ Len(timeseries) = 4
    /\ \E i, j \in 1..Len(timeseries) :
          /\ timeseries[i].method_group = "Transit" /\ timeseries[i].discoveries = 3
          /\ timeseries[j].method_group = "Other" /\ timeseries[j].discoveries = 1

\* C23: with a < b < c < d, trapezoidal_membership is 0 at or below a and at or
\* above d, (v-a)/(b-a) on [a,b], 1 on [b,c] and (d-v)/(d-c) on [c,d]; it lies
\* within [0,1] and is 1 only on the plateau [b,c].
C23_TrapezoidShape ==
    (result.returned /\ call.fn = "trapezoidal_membership") =>
        LET v == call.value
            a == call.window[1]
            b == call.window[2]
            c == call.window[3]
            d == call.window[4]
            y == result.value
        IN  /\ y = CASE v <= a \/ v >= d -> 0
                     [] v > a /\ v <= b -> ((v - a) * SCALE) \div (b - a)
                     [] v > b /\ v <= c -> SCALE
                     [] OTHER -> ((d - v) * SCALE) \div (d - c)
            /\ 0 <= y /\ y <= SCALE
            /\ (y = SCALE => (b <= v /\ v <= c))

\* A value on the descending ramp got a membership strictly between 0 and 1.
C23_Witness ==
    /\ result.returned /\ call.fn = "trapezoidal_membership"
    /\ call.window[3] < call.value /\ call.value < call.window[4]
    /\ 0 < result.value /\ result.value < SCALE

\* C24: the system-simplicity score is 1.0 for at most one star and
\* clip(1 - 0.25 * (stars - 1), 0.45, 0.85) otherwise; a star more never raises
\* it and it is never below 0.45.
C24_SystemScoreFloor ==
    (result.returned /\ call.fn = "system_score") =>
        /\ result.value = CASE call.sy_snum <= 1 -> 1000
                             [] call.sy_snum = 2 -> 750
                             [] call.sy_snum = 3 -> 500
                             [] OTHER -> 450
        /\ result.next <= result.value
        /\ result.value >= 450 /\ result.next >= 450

\* A system of five or more stars was scored at the floor.
C24_Witness ==
    /\ result.returned /\ call.fn = "system_score"
    /\ call.sy_snum >= 5 /\ result.value = 450

\* The mass a row is to be bounded on: the measurement or, without one, the
\* radius proxy.
ExpectedMass(r) ==
    IF r.pl_bmasse # NaN THEN r.pl_bmasse
    ELSE IF r.pl_rade <= 1500 THEN PowMilli(r.pl_rade, 37)
    ELSE (15 * PowMilli(r.pl_rade, 23)) \div 10

\* The insolation a row is to be bounded and scored on.
ExpectedInsolation(r) ==
    IF r.pl_insol # NaN THEN r.pl_insol
    ELSE LET t == (r.pl_eqt * 1000) \div 255
             t2 == (t * t) \div 1000
         IN  (t2 * t2) \div 1000

KeptBy(rows, r) == \E i \in 1..Len(rows) : rows[i].index = r.index

\* C25: the filled mass is the measured mass when there is one and the radius
\* proxy only otherwise, and the 0.2..15 bound is applied to the filled value.
C25_FilledMass ==
    (result.returned /\ call.fn = "select_habitable_inputs") =>
        /\ \A i \in 1..Len(result.once) :
               /\ result.once[i].pl_bmasse_filled = ExpectedMass(result.once[i])
               /\ result.once[i].pl_bmasse_filled >= 200
               /\ result.once[i].pl_bmasse_filled <= 15000
        /\ \A j \in 1..Len(result.input) :
               LET r == result.input[j]
               IN  (r.pl_rade # NaN /\ ( ExpectedMass(r) < 200
                                        \/ ExpectedMass(r) > 15000))
                       => ~ KeptBy(result.once, r)

\* A planet with a measured mass and one without were both selected.
C25_Witness ==
    /\ result.returned /\ call.fn = "select_habitable_inputs"
    /\ \E i, j \in 1..Len(result.once) :
           /\ result.once[i].pl_bmasse = NaN
           /\ result.once[i].pl_rade > 1500
           /\ result.once[j].pl_bmasse # NaN
           /\ result.once[j].pl_bmasse_filled = result.once[j].pl_bmasse

\* C26: the effective insolation is the raw insolation when there is one and
\* (T_eq/255)^4 only otherwise; the 0.1..3.0 bound and the insolation sub-score
\* are computed on the effective value.
C26_EffectiveInsolation ==
    (result.returned /\ call.fn = "select_habitable_inputs") =>
        /\ \A i \in 1..Len(result.once) :
               /\ result.once[i].pl_insol_effective
                      = ExpectedInsolation(result.once[i])
               /\ result.once[i].pl_insol_effective >= 100
               /\ result.once[i].pl_insol_effective <= 3000
        /\ \A j \in 1..Len(result.input) :
               LET r == result.input[j]
               IN  (r.pl_eqt # NaN /\ ( ExpectedInsolation(r) < 100
                                       \/ ExpectedInsolation(r) > 3000))
                       => ~ KeptBy(result.once, r)
        /\ \A k \in 1..Len(result.scored) :
               LET s == result.scored[k]
                   x == ExpectedInsolation(s)
               IN  /\ s.insolation_score # NaN
                   /\ s.insolation_score =
                          CASE x <= 200 \/ x >= 2200 -> 0
                            [] x > 200 /\ x < 320 -> ((x - 200) * 1000) \div 120
                            [] x >= 320 /\ x <= 1700 -> 1000
                            [] OTHER -> ((2200 - x) * 1000) \div 500

\* A planet without a raw insolation was selected and scored on the proxy.
C26_Witness ==
    /\ result.returned /\ call.fn = "select_habitable_inputs"
    /\ \E k \in 1..Len(result.scored) :
           /\ result.scored[k].pl_insol = NaN
           /\ result.scored[k].insolation_score # NaN
           /\ result.scored[k].pl_insol_effective # NaN

\* C28: select_habitable_inputs returns its own output unchanged, with the
\* same effective insolation and filled mass, and keeps the rows it returns
\* in the order of its input.
C28_SelectIdempotentInOrder ==
    (result.returned /\ call.fn = "select_habitable_inputs") =>
        /\ result.twice = result.once
        /\ \A i \in 1..Len(result.once) :
               \E j \in 1..Len(result.input) :
                   result.input[j].index = result.once[i].index
        /\ \A i, j \in 1..Len(result.once) :
               i < j => result.once[i].index < result.once[j].index

\* Two planets were selected around one that was dropped.
C28_Witness ==
    /\ result.returned /\ call.fn = "select_habitable_inputs"
    /\ Len(result.input) = 3 /\ Len(result.once) = 2
    /\ result.once[1].index + 2 = result.once[2].index
    /\ result.once[1].pl_insol_effective # result.once[2].pl_insol_effective

\* The defined absolute score differences over the rows the recomputed and
\* the stored table share by planet name.
SharedDiffs ==
    {AbsDiff(priority[i].priority_score, storedScores.rows[j].priority_score) :
        <<i, j>> \in {p \in (1..Len(priority)) \X (1..Len(storedScores.rows)) :
                        priority[p[1]].pl_name = storedScores.rows[p[2]].pl_name}}
    \ {NaN}

\* C21: the score-equality check is "pass" exactly when the largest absolute
\* difference between recomputed and stored priority_score over the shared
\* rows is below 1e-6 and "fail" otherwise; a stored table that is the output
\* of the same scoring run always passes.
C21_ScoreEqualityIffClose ==
    (Returned /\ storedScores.exists) =>
        /\ records[2].name = "Priority score equality"
        /\ records[2].status \in {"pass", "fail"}
        /\ (records[2].status = "pass")
               <=> (SharedDiffs # {} /\ \A d \in SharedDiffs : d < 1)
        /\ (storedScores.rows = ToCsv(priority)) => records[2].status = "pass"

\* C22: no stage changes what it was handed: the selector leaves the loaded
\* catalog as it was, the engine its input table, the comparison the scored
\* table, and the two weight tables keep their initial values throughout.
C22_StagesLeaveInputsAlone ==
    [][ /\ (pc = "select" => base' = base)
        /\ (pc = "score" => inputs' = inputs)
        /\ (pc = "compare" => (priority' = priority /\ inputs' = inputs))
        /\ AGGREGATE_WEIGHTS' = AGGREGATE_WEIGHTS_0
        /\ OBSERVABILITY_COMPONENT_WEIGHTS' = OBSERVABILITY_COMPONENT_WEIGHTS_0 ]_vars

\* The three stages have run, the selector dropped a row and added its two
\* columns, and the loaded catalog is still what load_planet_catalog returned.
C22_Witness ==
    /\ run = "main" /\ pc = "export"
    /\ Len(comparison) >= 1
    /\ Len(inputs) < Len(base.rows)
    /\ base = load_planet_catalog(catalog)
    /\ inputs = select_habitable_inputs(base)
    /\ "pl_bmasse_filled" \notin DOMAIN base.rows[1]
    /\ "priority_score" \notin DOMAIN inputs[1]
    /\ AGGREGATE_WEIGHTS = AGGREGATE_WEIGHTS_0

\* C27: the comparison has exactly one row per row of the scored table, in
\* the same order and with the scored table's values, whatever the reference
\* lists (a name more than once, names that differ only by whitespace).
C27_ComparisonPreservesScoredTable ==
    Compared =>
        /\ Len(comparison) = Len(priority)
        /\ \A i \in 1..Len(comparison) :
              /\ comparison[i].pl_name = priority[i].pl_name
              /\ comparison[i].priority_score = priority[i].priority_score
              /\ comparison[i].priority_band = priority[i].priority_band

====
